---------------------------- MODULE Spec2Model ----------------------------
(***************************************************************************)
(* A model of nlsam/denoiser.py: the greedy set cover that picks the       *)
(* WorkItems (greedy_set_finder), the per-slab reweighted sparse solve     *)
(* (_processer), the slab map-reduce (local_denoise) and the top-level     *)
(* b0 folding / per-direction accumulation (nlsam_denoise).                *)
(*                                                                         *)
(* Each of the four functions is a state machine of its own with its own   *)
(* specification (SpecCover, SpecProc, SpecLocal, SpecOrch); the variables *)
(* of the other three stay at their initial values.                        *)
(*                                                                         *)
(* Conventions.  Python sequences are 0-based; direction indices and       *)
(* volume positions keep their 0-based Python values, and a Python         *)
(* sequence s is the TLA+ sequence whose element p+1 is s[p].  Array       *)
(* values the code only moves around (image volumes, solver outputs) are   *)
(* symbolic: a denoised channel is the pair <<WorkItem number, source      *)
(* volume>>, and a sum of channels is the set of its summands.             *)
(***************************************************************************)
EXTENDS Integers, Sequences, FiniteSets

\* ---------------------------------------------------------------- bounds
\* A slab has 1 .. MaxBlocks blocks (columns of im2col_nd).
MaxBlocks == 2
\* n_iter is drawn from 0 .. MaxIter.
MaxIter == 4
\* A mask block has MaskRows voxels (mask_array.shape[0]).
MaskRows == 2
\* data.shape[2] is drawn from 1 .. MaxExtent, block_size[2] from 1 .. MaxBSize.
MaxExtent == 4
MaxBSize == 3
\* The Pool has 1 .. MaxCores worker processes.
MaxCores == 2
\* The training volume has 1 .. MaxTrainBlocks non-overlapping blocks.
MaxTrainBlocks == 1
\* nlsam_denoise gets 3 .. MaxVol volumes, each direction MaxNbr neighbors at most.
MaxVol == 5
MaxNbr == 2
\* Direction indices of the set-cover inputs are 0 .. MaxDir-1.
MaxDir == 3
\* The set-cover input has at most MaxSets WorkItems.
MaxSets == 3

\* ------------------------------------------------------------- utilities
Max(a, b) == IF a >= b THEN a ELSE b
Min(a, b) == IF a <= b THEN a ELSE b
Abs(x) == IF x >= 0 THEN x ELSE -x

RECURSIVE SeqsUpTo(_, _)
\* All sequences over S of length 0 .. n.
SeqsUpTo(S, n) ==
    IF n = 0 THEN {<<>>}
    ELSE LET shorter == SeqsUpTo(S, n - 1)
         IN  shorter \cup {Append(s, x) : s \in {t \in shorter : Len(t) = n - 1}, x \in S}

Range(s) == {s[p] : p \in DOMAIN s}

VARIABLES
    \* greedy_set_finder
    gpc,            \* "loop" | "done" | "error" | "idle"
    sets,           \* the input, already converted: sets = [set(s) for s in sets]
    universe,       \* the indices still uncovered
    output,         \* the WorkItems chosen so far (as sets)
    max_intersect,  \* of the last scan
    element         \* index into sets chosen by the last scan; Unbound before one

gvars == <<gpc, sets, universe, output, max_intersect, element>>

VARIABLES
    \* _processer (one slab)
    ppc,            \* "start" | "setup" | "loop_head" | "column" | "check"
                    \* | "reassemble" | "done" | "error" | "idle"
    n_iter,         \* the argument n_iter
    mask_array,     \* per block of the slab, the number of true voxels of its mask block
    train_idx,      \* the positions (0-based) of the selected blocks, in order
    param_alpha,    \* the keys of param_alpha written during the call
    lasso_calls,    \* per selected column, the number of spams.lasso calls so far
    round_calls,    \* per selected column, the spams.lasso calls of the current round
    rounds,         \* iterations of `for _ in range(n_iter)` started so far
    col,            \* the `i` of the inner loop of line 255
    alpha,          \* per selected column, its latest solver output (one entry per atom)
    W_inv,          \* per selected column and atom, the reciprocal 1/W of the weight W
    alpha_old,      \* the unscaled coefficients of the previous round
    has_converged,  \* per selected column
    eps,            \* per selected column
    arr,            \* the unscaled coefficients of line 262-264
    arr_bound,      \* whether the local `arr` has been assigned
    solve_W_inv,    \* per selected column, the 1/W its latest solve was scaled with
    w_updates,      \* number of times line 271 has run
    presult,        \* what the call returned: "none" | "zeros" | "recon"
    perror          \* the exception the call raised, "" when none

pvars == <<ppc, n_iter, mask_array, train_idx, param_alpha, lasso_calls, round_calls,
           rounds, col, alpha, W_inv, alpha_old, has_converged, eps, arr, arr_bound,
           solve_W_inv, w_updates, presult, perror>>

VARIABLES
    \* local_denoise (one neighborhood volume)
    lpc,            \* "start" | "dispatch" | "map" | "reduce" | "done" | "error" | "idle"
    extent,         \* data.shape[2]
    bsize,          \* block_size[2]
    n_cores,        \* param_alpha['numThreads'], the size of the Pool
    train_blocks,   \* per non-overlapping training block: the number of true voxels
                    \* of its mask block, and whether the data block is all zero
    train_cols,     \* the number of columns of train_data handed to spams.trainDL
    trainDL_called, \* whether spams.trainDL has been called
    tasks,          \* arglist: per slab k, "pending" | "running" | "returned"
    returned,       \* the slabs in the order their tasks returned
    data_subset,    \* per third-axis index z, the slab results summed into it, in order
    divider,        \* per third-axis index z, the count
    rk,             \* the `k` of the reduction loop of line 350
    lerror          \* the exception local_denoise raised, "" when none

lvars == <<lpc, extent, bsize, n_cores, train_blocks, train_cols, trainDL_called, tasks,
           returned, data_subset, divider, rk, lerror>>

VARIABLES
    \* nlsam_denoise
    opc,            \* "start" | "neighbors" | "greedy" | "loop" | "divide" | "reinsert"
                    \* | "done" | "idle"
    is_b0,          \* per input volume, bvals <= b0_thresh
    greedy_subsampler,
    nbr_count,      \* block_size[-1] - num_b0s, the neighbors per direction
    b0_loc,         \* the (first) b0 position once line 98 has made it a 1-tuple
    rest_of_b0s,    \* b0_loc[1:]; <<>> stands for None (the tuple is never empty)
    data,           \* the direction axis of data: per volume, the input position it
                    \* came from, or B0 for the (averaged) b0
    orig_shape,     \* orig_shape[-1] of line 116
    indexes,        \* the WorkItems
    wi,             \* WorkItems processed so far
    data_denoised,  \* per volume, the channels summed into it
    odivider,       \* the divider of lines 155-156
    out             \* the returned volumes: [sum, div] each

ovars == <<opc, is_b0, greedy_subsampler, nbr_count, b0_loc, rest_of_b0s, data,
           orig_shape, indexes, wi, data_denoised, odivider, out>>

vars == <<gvars, pvars, lvars, ovars>>

\* ============================================================ CoverPlanner
\* A Python local that has not been assigned yet.
Unbound == -1

\* `if n_intersect > max_intersect` (strict: the first maximum is kept).
BetterEq(n, m) == n >= m
Better(n, m) == n > m

RECURSIVE Scan(_, _, _, _, _)
\* The for-loop of lines 198-204 from position p+1 on, with the running
\* max_intersect m and element e; returns <<max_intersect, element>>.
Scan(S, U, p, m, e) ==
    IF p >= Len(S) THEN <<m, e>>
    ELSE LET n_intersect == Cardinality(S[p + 1] \cap U)
         IN  IF Better(n_intersect, m)
             THEN Scan(S, U, p + 1, n_intersect, p)
             ELSE Scan(S, U, p + 1, m, e)

\* The universe built by lines 187-190.
UnionAll(S) == UNION {S[p] : p \in DOMAIN S}

\* `universe = universe.difference(sets[element])`
Intersection(U, chosen) == U \cap chosen
Difference(U, chosen) == U \ chosen

CoverStart ==
    /\ sets \in SeqsUpTo(SUBSET (0 .. MaxDir - 1), MaxSets)
    /\ universe = UnionAll(sets)
    /\ output = <<>>
    /\ max_intersect = 0
    /\ element = Unbound
    /\ gpc = "loop"

\* One iteration of `while len(universe) != 0` (lines 194-207).
G_Select ==
    /\ gpc = "loop"
    /\ universe # {}
    /\ LET r == Scan(sets, universe, 0, 0, element)
       IN  /\ max_intersect' = r[1]
           /\ element' = r[2]
           /\ IF r[2] = Unbound
              THEN \* sets[element] with element unassigned: UnboundLocalError
                   /\ gpc' = "error"
                   /\ UNCHANGED <<output, universe>>
              ELSE /\ output' = Append(output, sets[r[2] + 1])
                   /\ universe' = Difference(universe, sets[r[2] + 1])
                   /\ gpc' = "loop"
    /\ UNCHANGED <<sets, pvars, lvars, ovars>>

\* The loop condition fails: `return output` (line 209).
G_Return ==
    /\ gpc = "loop"
    /\ universe = {}
    /\ gpc' = "done"
    /\ UNCHANGED <<sets, universe, output, max_intersect, element, pvars, lvars, ovars>>

\* The state of a greedy_set_finder that is not being run.
CoverIdle ==
    /\ gpc = "idle"
    /\ sets = <<>>
    /\ universe = {}
    /\ output = <<>>
    /\ max_intersect = 0
    /\ element = Unbound

\* ======================================================== ReweightedSolver
\* The rows of alpha (the atoms of D) the model follows: one.  The loop
\* treats the rows alike; they meet only in the maximum of line 265.
Atoms == {1}
\* The values a coefficient returned by spams.lasso (pos=True) may take, and
\* those of eps.  With integer-valued coefficients and eps every quantity of
\* the loop is an integer (alpha / W = alpha * (|alpha_old| + eps)), so the
\* test `< 1e-5` of line 265 is decided exactly: it holds iff the two values
\* are equal.
CoefValues == {0, 1}
EpsValues == {1, 2}

\* The numbers of true voxels a mask block is given: none, the largest
\* number that is not more than half, and all.
MaskCounts == {0, MaskRows \div 2, MaskRows}

\* `np.sum(mask_array, axis=0) > mask_array.shape[0] / 2.` (line 221)
SelectedOrHalf(count, rows) == 2 * count >= rows
Selected(count, rows) == 2 * count > rows

RECURSIVE SelectedBlocks(_, _)
\* The 0-based positions p >= from of the blocks line 221 selects, in order.
SelectedBlocks(m, from) ==
    IF from >= Len(m) THEN <<>>
    ELSE IF Selected(m[from + 1], MaskRows)
         THEN <<from>> \o SelectedBlocks(m, from + 1)
         ELSE SelectedBlocks(m, from + 1)

\* The columns of X after `X = X[:, train_idx]`: 0 .. alpha.shape[1]-1.
Cols == 0 .. Len(train_idx) - 1
AllAtoms(v) == [a \in Atoms |-> v]
AllCols(v) == [i \in Cols |-> v]

\* `if not has_converged[i]` (line 256)
SolveAlways(flag) == TRUE
NeedsSolve(flag) == ~flag

\* `arr[nonzero_ind] /= W[nonzero_ind]` (lines 262-264) for one column:
\* dividing by W multiplies by 1/W; a zero entry stays zero either way.
Unscale(a, winv) == [k \in Atoms |-> a[k] * winv[k]]

\* np.max(np.abs(alpha_old - arr), axis=0) for one column.
MaxAbsDiff(x, y) ==
    LET d == {Abs(x[k] - y[k]) : k \in Atoms}
    IN  CHOOSE m \in d : \A n \in d : n <= m

\* `np.max(np.abs(alpha_old - arr), axis=0) < 1e-5` (line 265) on integers.
Converged(x, y) == MaxAbsDiff(x, y) < 1

\* `W[:] = 1. / (np.abs(alpha_old**tau) + eps)` with tau = 1 (line 271),
\* as the reciprocal 1/W of one column.
NewWInv(a_old, e) == [k \in Atoms |-> Abs(a_old[k]) + e]

ProcStart ==
    /\ ppc = "start"
    /\ n_iter \in 0 .. MaxIter
    /\ mask_array \in {m \in SeqsUpTo(MaskCounts, MaxBlocks) : Len(m) >= 1}
    /\ train_idx = <<>>
    /\ param_alpha = {}
    /\ lasso_calls = <<>>
    /\ round_calls = <<>>
    /\ rounds = 0
    /\ col = 0
    /\ alpha = <<>>
    /\ W_inv = <<>>
    /\ alpha_old = <<>>
    /\ has_converged = <<>>
    /\ eps = <<>>
    /\ arr = <<>>
    /\ arr_bound = FALSE
    /\ solve_W_inv = <<>>
    /\ w_updates = 0
    /\ presult = "none"
    /\ perror = ""

\* The state of a _processer that is not being run.
ProcIdle ==
    /\ ppc = "idle"
    /\ n_iter = 0
    /\ mask_array = <<>>
    /\ train_idx = <<>>
    /\ param_alpha = {}
    /\ lasso_calls = <<>>
    /\ round_calls = <<>>
    /\ rounds = 0
    /\ col = 0
    /\ alpha = <<>>
    /\ W_inv = <<>>
    /\ alpha_old = <<>>
    /\ has_converged = <<>>
    /\ eps = <<>>
    /\ arr = <<>>
    /\ arr_bound = FALSE
    /\ solve_W_inv = <<>>
    /\ w_updates = 0
    /\ presult = "none"
    /\ perror = ""

\* Lines 219-225: select the blocks; with none selected return zeros.
P_Select ==
    /\ ppc = "start"
    /\ train_idx' = SelectedBlocks(mask_array, 0)
    /\ IF train_idx' = <<>>
       THEN /\ presult' = "zeros"
            /\ ppc' = "done"
       ELSE /\ presult' = presult
            /\ ppc' = "setup"
    /\ UNCHANGED <<n_iter, mask_array, param_alpha, lasso_calls, round_calls, rounds, col,
                   alpha, W_inv, alpha_old, has_converged, eps, arr, arr_bound,
                   solve_W_inv, w_updates, perror, gvars, lvars, ovars>>

\* Lines 227-249: everything set up before the reweighting loop.
P_Setup ==
    /\ ppc = "setup"
    /\ param_alpha' = param_alpha \cup {"L", "mode", "pos"}
    /\ alpha' = AllCols(AllAtoms(0))
    /\ W_inv' = AllCols(AllAtoms(1))
    /\ alpha_old' = AllCols(AllAtoms(1))
    /\ has_converged' = AllCols(FALSE)
    /\ eps' \in [Cols -> EpsValues]
    /\ lasso_calls' = AllCols(0)
    /\ round_calls' = AllCols(0)
    /\ solve_W_inv' = AllCols(AllAtoms(0))
    /\ ppc' = "loop_head"
    /\ UNCHANGED <<n_iter, mask_array, train_idx, rounds, col, arr, arr_bound, w_updates,
                   presult, perror, gvars, lvars, ovars>>

\* Line 251-253: `for _ in range(n_iter)`, and the rescaling of DtXW.
P_LoopHead ==
    /\ ppc = "loop_head"
    /\ IF rounds < n_iter
       THEN /\ rounds' = rounds + 1
            /\ col' = 0
            /\ round_calls' = AllCols(0)
            /\ ppc' = "column"
       ELSE /\ ppc' = "reassemble"
            /\ UNCHANGED <<rounds, col, round_calls>>
    /\ UNCHANGED <<n_iter, mask_array, train_idx, param_alpha, lasso_calls, alpha, W_inv,
                   alpha_old, has_converged, eps, arr, arr_bound, solve_W_inv, w_updates,
                   presult, perror, gvars, lvars, ovars>>

\* Lines 255-260 for one `i`: a column not yet converged is solved once.  The
\* solver is external: its output is any vector of CoefValues.
P_Column ==
    /\ ppc = "column"
    /\ col < Len(train_idx)
    /\ IF NeedsSolve(has_converged[col])
       THEN /\ param_alpha' = param_alpha \cup {"lambda1"}
            /\ \E solution \in [Atoms -> CoefValues] :
                   alpha' = [alpha EXCEPT ![col] = solution]
            /\ solve_W_inv' = [solve_W_inv EXCEPT ![col] = W_inv[col]]
            /\ lasso_calls' = [lasso_calls EXCEPT ![col] = @ + 1]
            /\ round_calls' = [round_calls EXCEPT ![col] = @ + 1]
       ELSE UNCHANGED <<param_alpha, alpha, solve_W_inv, lasso_calls, round_calls>>
    /\ col' = col + 1
    /\ UNCHANGED <<ppc, n_iter, mask_array, train_idx, rounds, W_inv, alpha_old, has_converged,
                   eps, arr, arr_bound, w_updates, presult, perror, gvars, lvars, ovars>>

\* Lines 262-265: undo the scaling of every column with the current W and
\* recompute every column's converged flag.
P_Unscale ==
    /\ ppc = "column"
    /\ col >= Len(train_idx)
    /\ arr' = [i \in Cols |-> Unscale(alpha[i], W_inv[i])]
    /\ arr_bound' = TRUE
    /\ has_converged' = [i \in Cols |-> Converged(alpha_old[i], arr'[i])]
    /\ ppc' = "check"
    /\ UNCHANGED <<n_iter, mask_array, train_idx, param_alpha, lasso_calls, round_calls,
                   rounds, col, alpha, W_inv, alpha_old, eps, solve_W_inv, w_updates,
                   presult, perror, gvars, lvars, ovars>>

\* Lines 267-271: break when every column has converged, else update W.
P_Check ==
    /\ ppc = "check"
    /\ IF \A i \in Cols : has_converged[i]
       THEN /\ ppc' = "reassemble"
            /\ UNCHANGED <<alpha_old, W_inv, w_updates>>
       ELSE /\ alpha_old' = arr
            /\ W_inv' = [i \in Cols |-> NewWInv(arr[i], eps[i])]
            /\ w_updates' = w_updates + 1
            /\ ppc' = "loop_head"
    /\ UNCHANGED <<n_iter, mask_array, train_idx, param_alpha, lasso_calls, round_calls,
                   rounds, col, alpha, has_converged, eps, arr, arr_bound, solve_W_inv,
                   presult, perror, gvars, lvars, ovars>>

\* Lines 273-280: `X = np.dot(D, arr)` reads the local arr, which only the
\* loop body assigns; then the reassembly and the return.
P_Reassemble ==
    /\ ppc = "reassemble"
    /\ IF arr_bound
       THEN /\ presult' = "recon"
            /\ ppc' = "done"
            /\ perror' = perror
       ELSE /\ perror' = "UnboundLocalError"
            /\ ppc' = "error"
            /\ presult' = presult
    /\ UNCHANGED <<n_iter, mask_array, train_idx, param_alpha, lasso_calls, round_calls,
                   rounds, col, alpha, W_inv, alpha_old, has_converged, eps, arr, arr_bound,
                   solve_W_inv, w_updates, gvars, lvars, ovars>>

NextProc == P_Select \/ P_Setup \/ P_LoopHead \/ P_Column \/ P_Unscale \/ P_Check
            \/ P_Reassemble

\* ============================================================ SlabScheduler
\* `np.sum(mask_col, axis=0) > mask_col.shape[0]/2` (line 308)
TrainSelected(count, rows) == 2 * count > rows

\* The blocks a training volume may be made of.
TrainBlock == [mask : MaskCounts, zero : BOOLEAN]

\* The number of columns of train_data after lines 310-311: the blocks the
\* mask selects whose data is not all zero.
TrainColumns(blocks) ==
    Cardinality({p \in DOMAIN blocks :
                    TrainSelected(blocks[p].mask, MaskRows) /\ ~blocks[p].zero})

\* `range(data.shape[2] - block_size[2] + 1)` (line 328): the number of slabs.
NumSlabsShort(e, b) == Max(e - b, 0)
NumSlabs(e, b) == Max(e - b + 1, 0)

\* The third-axis indices of slab k: `k:k+block_size[2]` (lines 326, 351).
SlabRange(k, b) == k .. k + b - 1

Running == {k \in DOMAIN tasks : tasks[k] = "running"}

LocalStart ==
    /\ lpc = "start"
    /\ extent \in 1 .. MaxExtent
    /\ bsize \in 1 .. MaxBSize
    /\ n_cores \in 1 .. MaxCores
    /\ train_blocks \in {t \in SeqsUpTo(TrainBlock, MaxTrainBlocks) : Len(t) >= 1}
    /\ train_cols = Unbound
    /\ trainDL_called = FALSE
    /\ tasks = <<>>
    /\ returned = <<>>
    /\ data_subset = <<>>
    /\ divider = <<>>
    /\ rk = 0
    /\ lerror = ""

\* The state of a local_denoise that is not being run.
LocalIdle ==
    /\ lpc = "idle"
    /\ extent = 0
    /\ bsize = 0
    /\ n_cores = 0
    /\ train_blocks = <<>>
    /\ train_cols = Unbound
    /\ trainDL_called = FALSE
    /\ tasks = <<>>
    /\ returned = <<>>
    /\ data_subset = <<>>
    /\ divider = <<>>
    /\ rk = 0
    /\ lerror = ""

\* Lines 286-317: the training columns are selected and handed to
\* spams.trainDL, whatever their number.  The solver is external: it returns
\* a dictionary or raises.
L_Train ==
    /\ lpc = "start"
    /\ train_cols' = TrainColumns(train_blocks)
    /\ trainDL_called' = TRUE
    /\ \/ /\ lpc' = "dispatch"
          /\ lerror' = lerror
       \/ /\ lpc' = "error"
          /\ lerror' = "SolverFailure"
    /\ UNCHANGED <<extent, bsize, n_cores, train_blocks, tasks, returned, data_subset,
                   divider, rk, gvars, pvars, ovars>>

\* Lines 319-336: the Pool is created, one task per slab is built and
\* pool.map submits them all.
L_Dispatch ==
    /\ lpc = "dispatch"
    /\ tasks' = [k \in 1 .. NumSlabs(extent, bsize) |-> "pending"]
    /\ lpc' = "map"
    /\ UNCHANGED <<extent, bsize, n_cores, train_blocks, train_cols, trainDL_called,
                   returned, data_subset, divider, rk, lerror, gvars, pvars, ovars>>

\* A free worker of the Pool takes any pending task (slab k-1).
L_TaskStart(k) ==
    /\ lpc = "map"
    /\ tasks[k] = "pending"
    /\ Cardinality(Running) < n_cores
    /\ tasks' = [tasks EXCEPT ![k] = "running"]
    /\ UNCHANGED <<lpc, extent, bsize, n_cores, train_blocks, train_cols, trainDL_called,
                   returned, data_subset, divider, rk, lerror, gvars, pvars, ovars>>

\* processer (lines 212-214) returns the slab's private result to the parent.
L_TaskReturn(k) ==
    /\ lpc = "map"
    /\ tasks[k] = "running"
    /\ tasks' = [tasks EXCEPT ![k] = "returned"]
    /\ returned' = Append(returned, k - 1)
    /\ UNCHANGED <<lpc, extent, bsize, n_cores, train_blocks, train_cols, trainDL_called,
                   data_subset, divider, rk, lerror, gvars, pvars, ovars>>

\* processer raises in the worker: pool.map re-raises in the parent and
\* local_denoise ends without reducing.
L_TaskRaise(k) ==
    /\ lpc = "map"
    /\ tasks[k] = "running"
    /\ lpc' = "error"
    /\ lerror' = "TaskError"
    /\ UNCHANGED <<extent, bsize, n_cores, train_blocks, train_cols, trainDL_called,
                   tasks, returned, data_subset, divider, rk, gvars, pvars, ovars>>

\* Lines 336-348: pool.map returns once every task has returned; the
\* accumulators are created.  `data_denoised[0]` of an empty list raises.
L_MapReturn ==
    /\ lpc = "map"
    /\ \A k \in DOMAIN tasks : tasks[k] = "returned"
    /\ IF tasks = <<>>
       THEN /\ lpc' = "error"
            /\ lerror' = "IndexError"
            /\ UNCHANGED <<data_subset, divider>>
       ELSE /\ data_subset' = [z \in 1 .. extent |-> <<>>]
            /\ divider' = [z \in 1 .. extent |-> 0]
            /\ lpc' = "reduce"
            /\ lerror' = lerror
    /\ rk' = 0
    /\ UNCHANGED <<extent, bsize, n_cores, train_blocks, train_cols, trainDL_called,
                   tasks, returned, gvars, pvars, ovars>>

\* Lines 350-352 for one k: slab k is added to its range, the count raised.
L_Reduce ==
    /\ lpc = "reduce"
    /\ rk < Len(tasks)
    /\ data_subset' = [z \in 1 .. extent |->
                          IF z - 1 \in SlabRange(rk, bsize)
                          THEN Append(data_subset[z], rk) ELSE data_subset[z]]
    /\ divider' = [z \in 1 .. extent |->
                      IF z - 1 \in SlabRange(rk, bsize)
                      THEN divider[z] + 1 ELSE divider[z]]
    /\ rk' = rk + 1
    /\ UNCHANGED <<lpc, extent, bsize, n_cores, train_blocks, train_cols, trainDL_called,
                   tasks, returned, lerror, gvars, pvars, ovars>>

\* Lines 354-355: `data_subset /= divider` and the return.
L_Divide ==
    /\ lpc = "reduce"
    /\ rk >= Len(tasks)
    /\ lpc' = "done"
    /\ UNCHANGED <<extent, bsize, n_cores, train_blocks, train_cols, trainDL_called,
                   tasks, returned, data_subset, divider, rk, lerror, gvars, pvars, ovars>>

NextLocal ==
    \/ L_Train
    \/ L_Dispatch
    \/ \E k \in DOMAIN tasks : L_TaskStart(k)
    \/ \E k \in DOMAIN tasks : L_TaskReturn(k)
    \/ \E k \in DOMAIN tasks : L_TaskRaise(k)
    \/ L_MapReturn
    \/ L_Reduce
    \/ L_Divide

\* ======================================================= DenoiseOrchestrator
\* The source token of the b0 channel (the mean of the b0s when folded).
B0 == -1

RECURSIVE Positions(_, _, _)
\* np.where(flags == want)[0] from position p on, 0-based and ascending.
Positions(flags, want, p) ==
    IF p >= Len(flags) THEN <<>>
    ELSE IF flags[p + 1] = want
         THEN <<p>> \o Positions(flags, want, p + 1)
         ELSE Positions(flags, want, p + 1)

\* np.insert(s, at, v) for one value.
Insert(s, at, v) == SubSeq(s, 1, at) \o <<v>> \o SubSeq(s, at + 1, Len(s))
\* np.delete(s, at) for one position.
Delete(s, at) == SubSeq(s, 1, at) \o SubSeq(s, at + 2, Len(s))

RECURSIVE TupleLE(_, _)
\* Python's `x <= y` on tuples: lexicographic.
TupleLE(x, y) ==
    IF x = <<>> THEN TRUE
    ELSE IF y = <<>> THEN FALSE
    ELSE IF x[1] # y[1] THEN x[1] < y[1]
    ELSE TupleLE(Tail(x), Tail(y))

RECURSIVE SetToTuple(_)
\* tuple(s) of a set of small non-negative ints: CPython iterates it in
\* ascending order (each int hashes to itself, and the table is larger than
\* every index the bounds allow).
SetToTuple(S) ==
    IF S = {} THEN <<>>
    ELSE LET m == CHOOSE x \in S : \A y \in S : x <= y
         IN  <<m>> \o SetToTuple(S \ {m})

RECURSIVE GreedyLoop(_, _, _, _)
\* The while-loop of greedy_set_finder (lines 194-207) run to its end.
GreedyLoop(S, U, chosen, e) ==
    IF U = {} THEN chosen
    ELSE LET r == Scan(S, U, 0, 0, e)
         IN  IF r[2] = Unbound THEN chosen
             ELSE GreedyLoop(S, Difference(U, S[r[2] + 1]),
                             Append(chosen, SetToTuple(S[r[2] + 1])), r[2])

\* greedy_set_finder(sets) (lines 182-209).
greedy_set_finder(tuples) ==
    LET S == [p \in DOMAIN tuples |-> Range(tuples[p])]
    IN  GreedyLoop(S, UnionAll(S), <<>>, Unbound)

\* `np.where(idx <= b0_loc, idx, np.array(idx) + num_b0s)` (line 139) with
\* num_b0s = 1: both operands of <= are tuples, so the condition is one bool.
DwiIdx(idx, b0) ==
    IF TupleLE(idx, <<b0>>) THEN idx ELSE [p \in DOMAIN idx |-> idx[p] + 1]

\* `a[..., P] += r` with an index tuple P: every position of P gets its old
\* value plus the channel of the last place of P that names it.
AddAt(acc, P, chan) ==
    [q \in DOMAIN acc |->
        IF q - 1 \in Range(P)
        THEN LET last == CHOOSE c \in DOMAIN P :
                            P[c] = q - 1 /\ \A d \in DOMAIN P : P[d] = q - 1 => d <= c
             IN  acc[q] \cup {chan[last]}
        ELSE acc[q]]

\* np.bincount(np.array(indexes).ravel()) (line 155).
Bincount(idxs) ==
    LET all == UNION {Range(idxs[w]) : w \in DOMAIN idxs}
        top == CHOOSE x \in all : \A y \in all : y <= x
    IN  [q \in 1 .. top + 1 |->
            Cardinality({<<w, c>> \in (DOMAIN idxs) \X (1 .. (nbr_count + 1)) :
                            c \in DOMAIN idxs[w] /\ idxs[w][c] = q - 1})]

\* The rows the angular neighbor finder may return among m directions:
\* nbr_count distinct directions, in any order.
NeighborTuples(m) ==
    {t \in [1 .. nbr_count -> 0 .. m - 1] :
        \A a, b \in 1 .. nbr_count : a # b => t[a] # t[b]}

OrchStart ==
    /\ opc = "start"
    /\ is_b0 \in {f \in SeqsUpTo(BOOLEAN, MaxVol) : Len(f) >= 3}
    /\ nbr_count \in 1 .. MaxNbr
    /\ Len(Positions(is_b0, TRUE, 0)) >= 1
    /\ Len(Positions(is_b0, FALSE, 0)) >= nbr_count + 1
    /\ greedy_subsampler \in BOOLEAN
    /\ b0_loc = 0
    /\ rest_of_b0s = <<>>
    /\ data = <<>>
    /\ orig_shape = 0
    /\ indexes = <<>>
    /\ wi = 0
    /\ data_denoised = <<>>
    /\ odivider = <<>>
    /\ out = <<>>

\* The state of a nlsam_denoise that is not being run.
OrchIdle ==
    /\ opc = "idle"
    /\ is_b0 = <<>>
    /\ nbr_count = 0
    /\ greedy_subsampler = FALSE
    /\ b0_loc = 0
    /\ rest_of_b0s = <<>>
    /\ data = <<>>
    /\ orig_shape = 0
    /\ indexes = <<>>
    /\ wi = 0
    /\ data_denoised = <<>>
    /\ odivider = <<>>
    /\ out = <<>>

\* Lines 77-102: several b0s are replaced by their mean at the first one's
\* position; with one b0 the data is left as it is.
O_Fold ==
    /\ opc = "start"
    /\ LET b0s == Positions(is_b0, TRUE, 0)
           dwis == Positions(is_b0, FALSE, 0)
       IN  /\ b0_loc' = b0s[1]
           /\ IF Len(b0s) > 1
              THEN /\ rest_of_b0s' = Tail(b0s)
                   /\ data' = Insert(dwis, b0s[1], B0)
              ELSE /\ rest_of_b0s' = <<>>
                   /\ data' = [p \in DOMAIN is_b0 |-> IF is_b0[p] THEN B0 ELSE p - 1]
    /\ opc' = "neighbors"
    /\ UNCHANGED <<is_b0, greedy_subsampler, nbr_count, orig_shape, indexes, wi,
                   data_denoised, odivider, out, gvars, pvars, lvars>>

\* Lines 104-125: the neighbors come from the external finder; orig_shape is
\* taken; the b0 is removed from data; one WorkItem per direction is built.
O_Neighbors ==
    /\ opc = "neighbors"
    /\ orig_shape' = Len(data)
    /\ data' = Delete(data, b0_loc)
    /\ LET m == Len(data) - 1
       IN  \E neighbors \in [0 .. m - 1 -> NeighborTuples(m)] :
              /\ \A i \in 0 .. m - 1 : i \notin Range(neighbors[i])
              /\ indexes' = [p \in 1 .. m |-> <<p - 1>> \o neighbors[p - 1]]
    /\ opc' = "greedy"
    /\ UNCHANGED <<is_b0, greedy_subsampler, nbr_count, b0_loc, rest_of_b0s, wi,
                   data_denoised, odivider, out, gvars, pvars, lvars>>

\* Lines 127-136: the WorkItems are reduced when asked to; the output starts
\* at zero with one volume per direction plus the b0.
O_Greedy ==
    /\ opc = "greedy"
    /\ indexes' = IF greedy_subsampler THEN greedy_set_finder(indexes) ELSE indexes
    /\ data_denoised' = [q \in 1 .. Len(data) + 1 |-> {}]
    /\ wi' = 0
    /\ opc' = "loop"
    /\ UNCHANGED <<is_b0, greedy_subsampler, nbr_count, b0_loc, rest_of_b0s, data,
                   orig_shape, odivider, out, gvars, pvars, lvars>>

\* Lines 138-153 for one WorkItem: channel 0 of the denoised block is the b0,
\* channel c the direction idx[c-1]; they are added at b0_loc + dwi_idx.
O_WorkItem ==
    /\ opc = "loop"
    /\ wi < Len(indexes)
    /\ LET idx == indexes[wi + 1]
           dwi_idx == DwiIdx(idx, b0_loc)
           chan == <<<<wi, B0>>>> \o [c \in DOMAIN idx |-> <<wi, data[idx[c] + 1]>>]
       IN  data_denoised' = AddAt(data_denoised, <<b0_loc>> \o dwi_idx, chan)
    /\ wi' = wi + 1
    /\ UNCHANGED <<opc, is_b0, greedy_subsampler, nbr_count, b0_loc, rest_of_b0s, data,
                   orig_shape, indexes, odivider, out, gvars, pvars, lvars>>

\* Lines 155-161: the divider, with the number of WorkItems at the b0.
O_Divide ==
    /\ opc = "loop"
    /\ wi >= Len(indexes)
    /\ odivider' = Insert(Bincount(indexes), b0_loc, Len(indexes))
    /\ opc' = "reinsert"
    /\ UNCHANGED <<is_b0, greedy_subsampler, nbr_count, b0_loc, rest_of_b0s, data,
                   orig_shape, indexes, wi, data_denoised, out, gvars, pvars, lvars>>

RECURSIVE Reinsert(_, _, _, _)
\* The loop of lines 170-175 from i on, n extra b0s put back so far.
Reinsert(i, n, size, vols) ==
    IF i >= size THEN <<>>
    ELSE IF i \in Range(rest_of_b0s)
         THEN <<vols[b0_loc + 1]>> \o Reinsert(i + 1, n + 1, size, vols)
         ELSE <<vols[i - n + 1]>> \o Reinsert(i + 1, n, size, vols)

\* Lines 158-179: the division, and the extra b0s put back.
O_Reinsert ==
    /\ opc = "reinsert"
    /\ LET quotient == [q \in 1 .. Min(orig_shape, Len(data_denoised)) |->
                           [sum |-> data_denoised[q], div |-> odivider[q]]]
       IN  out' = IF rest_of_b0s # <<>>
                  THEN Reinsert(0, 0, orig_shape, quotient)
                  ELSE quotient
    /\ opc' = "done"
    /\ UNCHANGED <<is_b0, greedy_subsampler, nbr_count, b0_loc, rest_of_b0s, data,
                   orig_shape, indexes, wi, data_denoised, odivider, gvars, pvars, lvars>>

NextOrch == O_Fold \/ O_Neighbors \/ O_Greedy \/ O_WorkItem \/ O_Divide \/ O_Reinsert

\* ---------------------------------------------------------- specifications
InitCover == CoverStart /\ ProcIdle /\ LocalIdle /\ OrchIdle
NextCover == G_Select \/ G_Return
SpecCover == InitCover /\ [][NextCover]_vars

InitProc == ProcStart /\ CoverIdle /\ LocalIdle /\ OrchIdle
SpecProc == InitProc /\ [][NextProc]_vars

InitLocal == LocalStart /\ CoverIdle /\ ProcIdle /\ OrchIdle
SpecLocal == InitLocal /\ [][NextLocal]_vars

InitOrch == OrchStart /\ CoverIdle /\ ProcIdle /\ LocalIdle
SpecOrch == InitOrch /\ [][NextOrch]_vars

\* ================================================================== claims
\* ------------------------------------------------------------- SpecCover
\* C1 (cover completeness): greedy_set_finder never fails, it can always
\* take a step until it returns, every step covers at least one more index
\* (so it returns after at most |universe| selections), and the union of
\* the WorkItems it returns is the union of the input WorkItems.
CoverComplete ==
    /\ gpc # "error"
    /\ gpc = "done" \/ ENABLED NextCover
    /\ universe \cup UnionAll(output) = UnionAll(sets)
    /\ Len(output) + Cardinality(universe) <= Cardinality(UnionAll(sets))
    /\ gpc = "done" => UnionAll(output) = UnionAll(sets)

\* A run that returned a proper reduction of at least two WorkItems.
CoverCompleteWitness ==
    /\ gpc = "done"
    /\ Len(output) >= 2
    /\ Len(output) < Len(sets)

\* C2 (greedy monotonicity): every selection step appends a WorkItem whose
\* intersection with the uncovered universe is at least that of every input
\* WorkItem, and strictly larger than that of every earlier input WorkItem.
GreedyMonotone ==
    [][(gpc = "loop" /\ universe # {}) =>
          /\ element' \in 0 .. Len(sets) - 1
          /\ output' = Append(output, sets[element' + 1])
          /\ \A j \in 0 .. Len(sets) - 1 :
                LET n == Cardinality(sets[j + 1] \cap universe)
                    chosen == Cardinality(sets[element' + 1] \cap universe)
                IN  /\ n <= chosen
                    /\ j < element' => n < chosen]_vars

\* The first selection was a tie: a later, different WorkItem covered as much.
GreedyMonotoneWitness ==
    /\ Len(output) = 1
    /\ \E j \in DOMAIN sets :
          /\ j > element + 1
          /\ sets[j] # output[1]
          /\ Cardinality(sets[j]) = max_intersect

\* -------------------------------------------------------------- SpecProc
ProcReturned == ppc \in {"done", "error"}
LoopPcs == {"loop_head", "column", "check", "reassemble", "done", "error"}

\* C4 (n_iter = 0): with at least one selected column _processer returns the
\* reconstruction of exactly one solve per column, all weights equal to one.
NIterZeroOneSolve ==
    (ProcReturned /\ n_iter = 0 /\ train_idx # <<>>) =>
        /\ ppc = "done"
        /\ presult = "recon"
        /\ \A i \in Cols : lasso_calls[i] = 1 /\ solve_W_inv[i] = AllAtoms(1)

\* C5 (zero-mask short circuit): when no mask block has more than half of
\* its voxels true, the call returns zeros as its only step, having called
\* the sparse solver for no column and written no solver parameter.
ZeroMaskShortCircuit ==
    (ppc \notin {"start", "idle"}
       /\ \A p \in DOMAIN mask_array : 2 * mask_array[p] <= MaskRows) =>
        /\ ppc = "done"
        /\ presult = "zeros"
        /\ param_alpha = {}
        /\ lasso_calls = <<>>
        /\ perror = ""

\* The short circuit taken by a mask that is not entirely false.
ZeroMaskWitness ==
    /\ ppc = "done"
    /\ presult = "zeros"
    /\ \E p \in DOMAIN mask_array : mask_array[p] > 0

\* C9 (loop control): at most n_iter rounds; in a round the solver is called
\* once for each column not flagged converged when the round began and never
\* for a flagged one; no round begins once every column is flagged, and the
\* round that flags them all leaves the weights as they are; a column is
\* solved at most once per round, so at most n_iter times; the call can
\* always step until it has returned.
LoopControl ==
    /\ ProcReturned \/ ppc = "idle" \/ ENABLED NextProc
    /\ rounds <= n_iter
    /\ (ppc \in LoopPcs /\ train_idx # <<>>) =>
          /\ \A i \in Cols : lasso_calls[i] <= rounds
          /\ ppc = "column" =>
                /\ \E i \in Cols : ~has_converged[i]
                /\ w_updates = rounds - 1
                /\ \A i \in Cols :
                      round_calls[i] = IF i < col /\ ~has_converged[i] THEN 1 ELSE 0
          /\ ppc = "check" => w_updates = rounds - 1
          /\ (ppc = "loop_head" /\ rounds >= 1) =>
                /\ \E i \in Cols : ~has_converged[i]
                /\ w_updates = rounds
          /\ (ppc \in {"reassemble", "done"} /\ rounds >= 1) =>
                \/ (\A i \in Cols : has_converged[i]) /\ w_updates = rounds - 1
                \/ rounds = n_iter /\ w_updates = rounds

\* A call that broke out of the loop after a round that skipped a column.
LoopControlWitness ==
    /\ ppc = "done"
    /\ presult = "recon"
    /\ \A i \in Cols : has_converged[i]
    /\ \E i \in Cols : lasso_calls[i] < rounds

\* C10 (unscaling consistency): at the end of every round the unscaled
\* coefficients of each column are its latest solver output divided by the
\* weights that solve used; a column skipped in the round (flagged before
\* it) keeps the coefficients of the previous round and stays flagged.
UnscalingConsistent ==
    ppc = "check" =>
        \A i \in Cols :
            /\ arr[i] = Unscale(alpha[i], solve_W_inv[i])
            /\ round_calls[i] = 0 => (arr[i] = alpha_old[i] /\ has_converged[i])

\* ------------------------------------------------------------- SpecLocal
\* The slabs that cover third-axis index z, for extent e and thickness b.
Covering(z, e, b) == {k \in 0 .. e - b : k <= z /\ z <= k + b - 1}

\* C6 (insufficient data): when no training column survives, local_denoise
\* fails with InsufficientDataError before spams.trainDL is called and
\* before any slab task is dispatched.
InsufficientDataRaised ==
    (lpc \notin {"start", "idle"}
       /\ \A p \in DOMAIN train_blocks :
             2 * train_blocks[p].mask <= MaskRows \/ train_blocks[p].zero) =>
        /\ lpc = "error"
        /\ lerror = "InsufficientDataError"
        /\ ~trainDL_called
        /\ tasks = <<>>

\* C8 (slab map-reduce): for extent >= block_size[2], exactly
\* extent - block_size[2] + 1 tasks are dispatched; nothing is reduced while
\* a task has not returned; and whatever the order the tasks ran and returned
\* in, the reduced value at z is the sum of the results of exactly the slabs
\* covering z, each once, over their number, which is at least 1.
SlabMapReduce ==
    /\ (lpc \in {"map", "reduce", "done"} /\ extent >= bsize) =>
          Len(tasks) = extent - bsize + 1
    /\ (\E k \in DOMAIN tasks : tasks[k] # "returned") =>
          /\ lpc \in {"map", "error"}
          /\ data_subset = <<>>
          /\ divider = <<>>
    /\ lpc \in {"reduce", "done"} => Len(returned) = Len(tasks)
    /\ (lpc = "done" /\ extent >= bsize) =>
          \A z \in 0 .. extent - 1 :
             /\ Range(data_subset[z + 1]) = Covering(z, extent, bsize)
             /\ Len(data_subset[z + 1]) = Cardinality(Covering(z, extent, bsize))
             /\ divider[z + 1] = Cardinality(Covering(z, extent, bsize))
             /\ divider[z + 1] >= 1

\* Overlapping slabs, run two at a time, that returned out of order.
SlabMapReduceWitness ==
    /\ lpc = "done"
    /\ bsize >= 2
    /\ extent >= bsize + 2
    /\ n_cores >= 2
    /\ \E a, b \in DOMAIN returned : a < b /\ returned[a] > returned[b]

\* -------------------------------------------------------------- SpecOrch
\* The position in the working volume of DWI j (numbered without the b0).
FullPos(j) == IF j < b0_loc THEN j ELSE j + 1

\* C7 (per-direction averaging): after the WorkItem loop each direction holds
\* the sum of its own denoised channel from exactly the WorkItems containing
\* it, the b0 holds the b0 channel of every WorkItem, and every divider entry
\* is the number of contributions of its direction, at least 1.
PerDirectionAveraging ==
    opc \in {"reinsert", "done"} =>
        /\ data_denoised[b0_loc + 1] = {<<w - 1, B0>> : w \in DOMAIN indexes}
        /\ \A j \in 0 .. Len(data) - 1 :
              data_denoised[FullPos(j) + 1] =
                 {<<w - 1, data[j + 1]>> :
                     w \in {v \in DOMAIN indexes : j \in Range(indexes[v])}}
        /\ \A q \in DOMAIN data_denoised :
              odivider[q] = Cardinality(data_denoised[q]) /\ odivider[q] >= 1

\* C3 (multiple-b0 folding): with two or more b0s among n input volumes the
\* output has n volumes, every input b0 position holds the denoised averaged
\* b0, and every DWI position holds the denoised DWI of that input position.
MultipleB0Folding ==
    (opc = "done" /\ Len(Positions(is_b0, TRUE, 0)) >= 2) =>
        /\ Len(out) = Len(is_b0)
        /\ \A p \in DOMAIN is_b0 :
              IF is_b0[p]
              THEN out[p].sum = {<<w - 1, B0>> : w \in DOMAIN indexes}
              ELSE /\ out[p].sum # {}
                   /\ \A c \in out[p].sum : c[2] = p - 1

=============================================================================
